---- MODULE Spec2Model ----
(***************************************************************************)
(* Model of BK467-Server.py: the BK467 accessor class (mode detection,     *)
(* payload decoding, the wheel and crank rate estimators) and the main     *)
(* program's polling task that builds and publishes the JSON snapshot.     *)
(*                                                                         *)
(* Numbers.  Python floats are modelled as exact rationals.  The only      *)
(* comparison the program makes on a float is rpm <= 500; for 16-bit       *)
(* deltas the exact quotient differs from 500 by at least 1/65535 unless   *)
(* it is exactly 500, so rounding can change the comparison only at        *)
(* exactly 500, which needs a time_delta that is a multiple of 3072 and    *)
(* which the payloads below do not produce.  cycling_speed is kept in      *)
(* units of the wheel circumference (0.622 * 3.14159265359 m), i.e. the    *)
(* field holds rpm / 60 * 3.6.                                             *)
(*                                                                         *)
(* Scheduling.  Every accessor is a coroutine that never suspends, so one  *)
(* pass of update() from line 239 to the sleep of line 240 runs without    *)
(* returning to the event loop; the bleak notification callback is run by  *)
(* the event loop.  The pass is modelled one awaited accessor at a time    *)
(* (pc names the source line about to run) and LoopIdle says when the      *)
(* event loop can run a callback.                                          *)
(***************************************************************************)
EXTENDS Integers, Sequences, FiniteSets, TLC

VARIABLES
    client,                         \* self.client: "None" or "BleakClient"
    data,                           \* self.data: [bytes, id]; id tags the buffer object
    prev_combo_csc_cum_wheel_rev,   \* speed estimator state
    prev_combo_csc_wheel_time,
    prev_cum_crank_rev,             \* cadence estimator state
    prev_crank_time,
    prev_crank_staleness,
    prev_rpm,
    device_name,                    \* main's nonlocals
    battery_level,
    json_data,                      \* the published snapshot ("{}" is the empty function)
    pc,                             \* position of the update() task
    wheel_speed,                    \* generate_json_str's local (kmph, rpm)
    w_data,                         \* generate_json_str's dict under construction
    loc,                            \* locals of the estimator calls of the current pass
    pre,                            \* history: estimator state when the current pass began
    reads,                          \* history: buffer ids read by the current pass
    pub,                            \* history: what the last published pass read
    notified,                       \* history: number of notifications delivered
    lost,                           \* history: ids overwritten before any pass read them
    processed,                      \* history: ids some pass has read
    crank_seen,                     \* history: calculate_cadence has run before
    run,                            \* history: current run of unchanged crank timestamps
    response,                       \* the HTTP response written by the latest step, if it was a GET
    call                            \* latest accessor call made without a session, and its outcome

vars == <<client, data, prev_combo_csc_cum_wheel_rev, prev_combo_csc_wheel_time,
          prev_cum_crank_rev, prev_crank_time, prev_crank_staleness, prev_rpm,
          device_name, battery_level, json_data, pc, wheel_speed, w_data, loc,
          pre, reads, pub, notified, lost, processed, crank_seen, run,
          response, call>>

-----------------------------------------------------------------------------
(* Bounds of the model *)

\* Notifications delivered in one behaviour.
MaxNotify == 3
\* Cap of the history counter of consecutive unchanged-timestamp cadence ticks.
MaxStale == 4

-----------------------------------------------------------------------------------------------------------------------------------------------------
(* Exact arithmetic standing for Python float arithmetic.  A number is      *)
(* <<n, d, e>>, standing for (n / d) * 2^e with n and d odd and coprime,    *)
(* d > 0, and zero written <<0, 1, 0>>: the factors 1024 and 60 * 1024 of   *)
(* the rate formulas then stay within TLC's 32-bit integers.              *)

Abs(x) == IF x < 0 THEN -x ELSE x

RECURSIVE GCD(_, _)
GCD(a, b) == IF b = 0 THEN a ELSE GCD(b, a % b)

\* the exponent of 2 in x # 0, and x without its factors 2
RECURSIVE TwoExp(_)
TwoExp(x) == IF x % 2 # 0 THEN 0 ELSE 1 + TwoExp(x \div 2)

OddPart(x) == x \div (2 ^ TwoExp(x))

\* (n / d) * 2^e in normal form, for d > 0
Num(n, d, e) ==
    IF n = 0 THEN <<0, 1, 0>>
    ELSE LET no == OddPart(n)
             do == OddPart(d)
             g == GCD(Abs(no), do)
         IN  <<no \div g, do \div g, e + TwoExp(n) - TwoExp(d)>>

FromInt(n) == Num(n, 1, 0)

Zero == FromInt(0)

\* r * a / b for integers a > 0, b > 0 (reduced before multiplying)
NumMul(r, a, b) ==
    LET ao == OddPart(a)
        bo == OddPart(b)
        g1 == GCD(Abs(r[1]), bo)
        g2 == GCD(ao, r[2])
    IN  Num((r[1] \div g1) * (ao \div g2), (r[2] \div g2) * (bo \div g1),
            r[3] + TwoExp(a) - TwoExp(b))

\* n / r for an integer n and a number r > 0
IntDivNum(n, r) ==
    LET g == GCD(Abs(n), r[1])
    IN  IF n = 0 THEN Zero
        ELSE Num((n \div g) * r[2], r[1] \div g, -r[3])

\* r < 0
NumNegative(r) == r[1] < 0

\* r <= k for an integer k >= 0
NumLeqInt(r, k) ==
    IF r[3] >= 0 THEN r[1] <= (k * r[2]) \div (2 ^ r[3])
    ELSE r[1] <= k * r[2] * (2 ^ (-r[3]))

-----
(* Notification payloads delivered by the sensor *)

\* A crank (cadence) notification: flags 0x02, counter and event time, both
\* little-endian 16-bit.
CadencePayload(rev, t) ==
    <<2, rev % 256, rev \div 256, t % 256, t \div 256>>

\* A wheel (speed) notification: flags 0x01, little-endian 32-bit counter and
\* little-endian 16-bit event time.
SpeedPayload(rev, t) ==
    <<1, rev % 256, (rev \div 256) % 256, (rev \div 65536) % 256,
      rev \div 16777216, t % 256, t \div 256>>

\* The same payload under another flags byte.
WithFlags(p, f) == [p EXCEPT ![1] = f]

Payloads ==
    { CadencePayload(1, 1024), CadencePayload(2, 2048), CadencePayload(10, 1024),
      CadencePayload(65535, 65535), CadencePayload(0, 0),
      SpeedPayload(10, 1024), SpeedPayload(20, 2048), SpeedPayload(5, 3072),
      WithFlags(SpeedPayload(10, 1024), 3),
      WithFlags(SpeedPayload(10, 1024), 0),
      SubSeq(SpeedPayload(10, 1024), 1, 5),
      SubSeq(SpeedPayload(10, 1024), 1, 6) }

DeviceNames == {"BK6"}
BatteryLevels == {87}

-----------------------------------------------------------------------------
(* class BK467: accessors.  An accessor is a value operator together with a *)
(* predicate saying when the Python code raises IndexError instead.         *)

\* self.data[i]
Item(bytes, i) == bytes[i + 1]
\* self.data[i] raises IndexError
OutOfRange(bytes, i) == i >= Len(bytes)

\* a detector that falls back to cadence when bit 0 is clear
get_mode_default_cadence(bytes) ==
    IF Item(bytes, 0) % 2 > 0 THEN "speed" ELSE "cadence"

get_mode(bytes) ==
    LET is_speed_mode == Item(bytes, 0) % 2 > 0
        is_cadence_mode == (Item(bytes, 0) \div 2) % 2 > 0
    IN  IF is_cadence_mode THEN "cadence" ELSE "speed"

get_mode_raises(bytes) == OutOfRange(bytes, 0)

get_cum_wheel_rev(bytes) ==
    IF get_mode(bytes) # "speed" THEN 0
    ELSE Item(bytes, 4) * 16777216 + Item(bytes, 3) * 65536
         + Item(bytes, 2) * 256 + Item(bytes, 1)

get_cum_wheel_rev_raises(bytes) ==
    \/ get_mode_raises(bytes)
    \/ get_mode(bytes) = "speed" /\ OutOfRange(bytes, 4)

get_last_wheel_time(bytes) ==
    IF get_mode(bytes) # "speed" THEN 0
    ELSE Item(bytes, 6) * 256 + Item(bytes, 5)

get_last_wheel_time_raises(bytes) ==
    \/ get_mode_raises(bytes)
    \/ get_mode(bytes) = "speed" /\ OutOfRange(bytes, 6)

\* a decoder that does not look at the mode
get_cum_crank_rev_no_mode_check(bytes) ==
    Item(bytes, 2) * 256 + Item(bytes, 1)

get_cum_crank_rev(bytes) ==
    IF get_mode(bytes) # "cadence" THEN 0
    ELSE Item(bytes, 2) * 256 + Item(bytes, 1)

get_cum_crank_rev_raises(bytes) ==
    \/ get_mode_raises(bytes)
    \/ get_mode(bytes) = "cadence" /\ OutOfRange(bytes, 2)

get_last_crank_time(bytes) ==
    IF get_mode(bytes) # "cadence" THEN 0
    ELSE Item(bytes, 4) * 256 + Item(bytes, 3)

get_last_crank_time_raises(bytes) ==
    \/ get_mode_raises(bytes)
    \/ get_mode(bytes) = "cadence" /\ OutOfRange(bytes, 4)

-----------------------------------------------------------------------------
(* Speed estimator *)

\* the other branch of the conditional of line 111
TicksPerSecondDouble == 2 * 1024
\* the factor of line 111: (2048.0 if False else 1024.0)
TicksPerSecond == 1024

\* an estimator that advances its state only when it computed a rate
get_wheel_rpm_advance_on_rate(bytes, prev_rev, prev_time) ==
    LET cum_wheel_rev == get_cum_wheel_rev(bytes)
        last_wheel_time == get_last_wheel_time(bytes)
        delta_rotations == cum_wheel_rev - prev_rev
        td0 == last_wheel_time - prev_time
        time_delta == IF td0 < 0 THEN td0 + 65535 ELSE td0
        computed == time_delta # 0 /\ prev_rev # 0
    IN  [ wheel_rpm |->
              IF computed
              THEN NumMul(FromInt(delta_rotations * 60), 1024, time_delta)
              ELSE Zero,
          prev_combo_csc_cum_wheel_rev |->
              IF computed THEN cum_wheel_rev ELSE prev_rev,
          prev_combo_csc_wheel_time |->
              IF computed THEN last_wheel_time ELSE prev_time,
          delta_rotations |-> delta_rotations,
          time_delta |-> time_delta ]

\* get_wheel_rpm: the returned rate, the new estimator state and the locals.
get_wheel_rpm(bytes, prev_rev, prev_time) ==
    LET cum_wheel_rev == get_cum_wheel_rev(bytes)
        last_wheel_time == get_last_wheel_time(bytes)
        delta_rotations == cum_wheel_rev - prev_rev
        td0 == last_wheel_time - prev_time
        time_delta == IF td0 < 0 THEN td0 + 65535 ELSE td0
        wheel_rpm ==
            IF time_delta # 0 /\ prev_rev # 0
            THEN NumMul(FromInt(delta_rotations * 60), TicksPerSecond, time_delta)
            ELSE Zero
    IN  [ wheel_rpm |-> wheel_rpm,
          prev_combo_csc_cum_wheel_rev |-> cum_wheel_rev,
          prev_combo_csc_wheel_time |-> last_wheel_time,
          delta_rotations |-> delta_rotations,
          time_delta |-> time_delta ]

get_wheel_rpm_raises(bytes) ==
    get_cum_wheel_rev_raises(bytes) \/ get_last_wheel_time_raises(bytes)

\* get_wheel_speed's (kmph, rpm) from the rpm; kmph in wheel circumferences.
get_wheel_speed(rpm) ==
    LET rps == NumMul(rpm, 1, 60)
        kmph == NumMul(rps, 18, 5)
    IN  <<kmph, rpm>>

-----------------------------------------------------------------------------
(* Cadence estimator *)

\* a limit that forgives one more stale tick
StalenessLimitThree == 2 + 1
\* the 2 of lines 170 and 173
StalenessLimit == 2

\* a check that lets every rpm through
check_rpm_no_clamp(rpm) == rpm

check_rpm(rpm) == IF NumLeqInt(rpm, 500) THEN rpm ELSE Zero

\* an estimator that does not correct a negative counter difference
calculate_cadence_no_counter_wrap(st, cum_crank_rev, last_crank_time) ==
    LET delta_rotations == cum_crank_rev - st.prev_cum_crank_rev
        td0 == last_crank_time - st.prev_crank_time
        time_delta == IF td0 < 0 THEN td0 + 65535 ELSE td0
        time_mins == NumMul(NumMul(FromInt(time_delta), 1, 1024), 1, 60)
        rpm == IF time_delta # 0 THEN IntDivNum(delta_rotations, time_mins)
               ELSE IF st.prev_crank_staleness < 2 THEN st.prev_rpm
               ELSE Zero
    IN  [ cadence |-> IF NumLeqInt(rpm, 500) THEN rpm ELSE Zero,
          prev_cum_crank_rev |-> cum_crank_rev,
          prev_crank_time |-> last_crank_time,
          prev_crank_staleness |->
              IF time_delta # 0 THEN 0
              ELSE IF st.prev_crank_staleness < 2
                   THEN st.prev_crank_staleness + 1
                   ELSE st.prev_crank_staleness,
          prev_rpm |-> IF time_delta # 0 THEN rpm ELSE st.prev_rpm,
          rpm |-> rpm,
          delta_rotations |-> delta_rotations,
          time_delta |-> time_delta ]

\* calculate_cadence: the returned rate, the new estimator state and the locals.
calculate_cadence(st, cum_crank_rev, last_crank_time) ==
    LET dr0 == cum_crank_rev - st.prev_cum_crank_rev
        delta_rotations == IF dr0 < 0 THEN dr0 + 65535 ELSE dr0
        td0 == last_crank_time - st.prev_crank_time
        time_delta == IF td0 < 0 THEN td0 + 65535 ELSE td0
        time_mins == NumMul(NumMul(FromInt(time_delta), 1, 1024), 1, 60)
        rpm == IF time_delta # 0 THEN IntDivNum(delta_rotations, time_mins)
               ELSE IF st.prev_crank_staleness < StalenessLimit THEN st.prev_rpm
               ELSE Zero
    IN  [ cadence |-> check_rpm(rpm),
          prev_cum_crank_rev |-> cum_crank_rev,
          prev_crank_time |-> last_crank_time,
          prev_crank_staleness |->
              IF time_delta # 0 THEN 0
              ELSE IF st.prev_crank_staleness < StalenessLimit
                   THEN st.prev_crank_staleness + 1
                   ELSE st.prev_crank_staleness,
          prev_rpm |-> IF time_delta # 0 THEN rpm ELSE st.prev_rpm,
          rpm |-> rpm,
          delta_rotations |-> delta_rotations,
          time_delta |-> time_delta ]

get_cadence_raises(bytes) ==
    \/ get_mode_raises(bytes)
    \/ get_mode(bytes) = "cadence"
       /\ (get_cum_crank_rev_raises(bytes) \/ get_last_crank_time_raises(bytes))

-----------------------------------------------------------------------------
(* State after construction: BK467() and main's locals (lines 52-54,        *)
(* 95-96, 151-154, 195-198)                                                 *)

InitData == <<0, 0, 0, 0, 0, 0, 0>>

NoLocals ==
    [ wheel_updates |-> 0, crank_updates |-> 0,
      wheel_delta_rotations |-> 0, wheel_time_delta |-> 0,
      crank_called |-> FALSE, crank_delta_rotations |-> 0,
      crank_time_delta |-> 0, rpm |-> Zero ]

NoPre ==
    [ prev_combo_csc_cum_wheel_rev |-> 0, prev_combo_csc_wheel_time |-> 0,
      prev_cum_crank_rev |-> 0, prev_crank_time |-> 0,
      prev_crank_staleness |-> 0, prev_rpm |-> Zero,
      crank_seen |-> FALSE, notified |-> 0 ]

NoRun == [ valid |-> FALSE, r |-> Zero, n |-> 0, last |-> Zero ]

\* the latest step was not a GET
NoResponse == [ sent |-> FALSE, body |-> <<>>, published |-> FALSE ]

\* no accessor has been called yet
NoCall == [ name |-> "", outcome |-> "" ]

Init ==
    /\ client = "None"
    /\ data = [bytes |-> InitData, id |-> 0]
    /\ prev_combo_csc_cum_wheel_rev = 0
    /\ prev_combo_csc_wheel_time = 0
    /\ prev_cum_crank_rev = 0
    /\ prev_crank_time = 0
    /\ prev_crank_staleness = 0
    /\ prev_rpm = Zero
    /\ device_name = ""
    /\ battery_level = 0
    /\ json_data = <<>>
    /\ pc = "scan"
    /\ wheel_speed = <<Zero, Zero>>
    /\ w_data = <<>>
    /\ loc = NoLocals
    /\ pre = NoPre
    /\ reads = {}
    /\ pub = [reads |-> {}, latest |-> 0]
    /\ notified = 0
    /\ lost = {}
    /\ processed = {}
    /\ crank_seen = FALSE
    /\ run = NoRun
    /\ response = NoResponse
    /\ call = NoCall

estimator_vars ==
    <<prev_combo_csc_cum_wheel_rev, prev_combo_csc_wheel_time,
      prev_cum_crank_rev, prev_crank_time, prev_crank_staleness, prev_rpm>>

history_vars == <<pub, notified, lost, processed, crank_seen, run>>

-----------------------------------------------------------------------------
(* main: scan, connect, on_connected, create_task(update) (lines 61-68,     *)
(* 200-205, 251-258)                                                        *)

Connect ==
    /\ pc = "scan"
    /\ response' = NoResponse
    /\ client = "None"
    /\ client' = "BleakClient"
    /\ device_name' \in DeviceNames
    /\ battery_level' \in BatteryLevels
    /\ pc' = "ready"
    /\ call' = NoCall
    /\ UNCHANGED <<data, estimator_vars, json_data, wheel_speed, w_data,
                   loc, pre, reads, history_vars>>

-----------------------------------------------------------------------------
(* An accessor of BK467 awaited while self.client is None (lines 70-72 and  *)
(* the first statement of every accessor)                                   *)

Accessors ==
    { "get_mode", "get_wheel_rpm", "get_cum_wheel_rev", "get_last_wheel_time",
      "get_cadence", "get_cum_crank_rev", "get_last_crank_time", "get_attr",
      "get_battery_level" }

\* a check that lets every call through
check_device_connected_never_raises(self_client) == FALSE

\* _check_device_connected raises ValueError("Device not connected")
check_device_connected_raises(self_client) == self_client = "None"

CallWithoutSession ==
    /\ pc = "scan"
    /\ response' = NoResponse
    /\ client = "None"
    /\ \E a \in Accessors :
          IF check_device_connected_raises(client)
          THEN /\ call' = [name |-> a, outcome |-> "ValueError"]
               /\ UNCHANGED <<data, estimator_vars, crank_seen>>
          ELSE \* the body of the accessor runs with self.client = None
               /\ call' = [name |-> a,
                           outcome |-> IF a \in {"get_attr", "get_battery_level"}
                                       THEN "AttributeError" ELSE "returned"]
               /\ UNCHANGED data
               /\ IF a = "get_wheel_rpm"
                  THEN LET r == get_wheel_rpm(data.bytes, prev_combo_csc_cum_wheel_rev,
                                              prev_combo_csc_wheel_time)
                       IN  /\ prev_combo_csc_cum_wheel_rev' = r.prev_combo_csc_cum_wheel_rev
                           /\ prev_combo_csc_wheel_time' = r.prev_combo_csc_wheel_time
                           /\ UNCHANGED <<prev_cum_crank_rev, prev_crank_time,
                                          prev_crank_staleness, prev_rpm, crank_seen>>
                  ELSE IF a = "get_cadence" /\ get_mode(data.bytes) = "cadence"
                  THEN LET c == calculate_cadence(
                                    [ prev_cum_crank_rev |-> prev_cum_crank_rev,
                                      prev_crank_time |-> prev_crank_time,
                                      prev_crank_staleness |-> prev_crank_staleness,
                                      prev_rpm |-> prev_rpm ],
                                    get_cum_crank_rev(data.bytes),
                                    get_last_crank_time(data.bytes))
                       IN  /\ prev_cum_crank_rev' = c.prev_cum_crank_rev
                           /\ prev_crank_time' = c.prev_crank_time
                           /\ prev_crank_staleness' = c.prev_crank_staleness
                           /\ prev_rpm' = c.prev_rpm
                           /\ crank_seen' = TRUE
                           /\ UNCHANGED <<prev_combo_csc_cum_wheel_rev,
                                          prev_combo_csc_wheel_time>>
                  ELSE UNCHANGED <<estimator_vars, crank_seen>>
    /\ UNCHANGED <<client, device_name, battery_level, json_data, pc,
                   wheel_speed, w_data, loc, pre, reads, pub, notified, lost,
                   processed, run>>

-----------------------------------------------------------------------------
(* The notification callback *)

\* A loop that would run callbacks at every await of update().
LoopIdleAtEveryAwait == pc # "scan"

\* The event loop can run a callback: update() is suspended in
\* asyncio.sleep (or not started yet), or has ended with an exception.
LoopIdle == pc \in {"ready", "dead"}

\* a callback that keeps the first buffer it was given
speed_and_cadence_notify_keep_first(self_data, new_data) ==
    IF self_data.id = 0 THEN new_data ELSE self_data

\* speed_and_cadence_notify: the new value of self.data
speed_and_cadence_notify(self_data, new_data) == new_data

Notify ==
    /\ client # "None"
    /\ response' = NoResponse
    /\ LoopIdle
    /\ notified < MaxNotify
    /\ \E p \in Payloads :
          data' = speed_and_cadence_notify(data, [bytes |-> p, id |-> notified + 1])
    /\ notified' = notified + 1
    /\ lost' = IF data.id # 0 /\ data.id \notin processed /\ data'.id # data.id
               THEN lost \cup {data.id} ELSE lost
    /\ UNCHANGED <<client, estimator_vars, device_name, battery_level, json_data, call,
                   pc, wheel_speed, w_data, loc, pre, reads, pub, processed,
                   crank_seen, run>>

-----------------------------------------------------------------------------
(* update() / generate_json_str(): one pass, one awaited accessor at a time *)

Min(a, b) == IF a < b THEN a ELSE b

\* An exception leaves generate_json_str and update(): the task ends.
Abort ==
    /\ pc' = "dead"
    /\ UNCHANGED <<client, data, estimator_vars, device_name, battery_level,
                   json_data, call, wheel_speed, w_data, loc, pub, notified, lost,
                   crank_seen, run>>

\* line 209: wheel_speed = await bk467.get_wheel_speed()
Step209 ==
    /\ pc = "ready"
    /\ response' = NoResponse
    /\ client # "None"
    /\ pre' = [ prev_combo_csc_cum_wheel_rev |-> prev_combo_csc_cum_wheel_rev,
                prev_combo_csc_wheel_time |-> prev_combo_csc_wheel_time,
                prev_cum_crank_rev |-> prev_cum_crank_rev,
                prev_crank_time |-> prev_crank_time,
                prev_crank_staleness |-> prev_crank_staleness,
                prev_rpm |-> prev_rpm,
                crank_seen |-> crank_seen,
                notified |-> notified ]
    /\ reads' = {data.id}
    /\ processed' = processed \cup {data.id}
    /\ IF get_wheel_rpm_raises(data.bytes)
       THEN Abort
       ELSE LET r == get_wheel_rpm(data.bytes, prev_combo_csc_cum_wheel_rev,
                                   prev_combo_csc_wheel_time)
            IN  /\ prev_combo_csc_cum_wheel_rev' = r.prev_combo_csc_cum_wheel_rev
                /\ prev_combo_csc_wheel_time' = r.prev_combo_csc_wheel_time
                /\ wheel_speed' = get_wheel_speed(r.wheel_rpm)
                /\ loc' = [NoLocals EXCEPT
                              !.wheel_updates = @ + 1,
                              !.wheel_delta_rotations = r.delta_rotations,
                              !.wheel_time_delta = r.time_delta]
                /\ w_data' = <<>>
                /\ pc' = "L213"
                /\ UNCHANGED <<client, data, prev_cum_crank_rev, prev_crank_time,
                               prev_crank_staleness, prev_rpm, device_name,
                               battery_level, json_data, call, pub, notified, lost,
                               crank_seen, run>>

\* A dict entry whose value is an awaited accessor that only reads self.data.
FieldStep(here, next, raises, entries) ==
    /\ pc = here
    /\ response' = NoResponse
    /\ reads' = reads \cup {data.id}
    /\ processed' = processed \cup {data.id}
    /\ UNCHANGED pre
    /\ IF raises
       THEN Abort
       ELSE /\ pc' = next
            /\ w_data' = entries @@ w_data
            /\ UNCHANGED <<client, data, estimator_vars, device_name,
                           battery_level, json_data, call, wheel_speed, loc, pub,
                           notified, lost, crank_seen, run>>

\* lines 211-213: 'device_name', 'battery_level', 'mode': await bk467.get_mode()
Step213 ==
    FieldStep("L213", "L214", get_mode_raises(data.bytes),
              ("device_name" :> device_name) @@ ("battery_level" :> battery_level)
              @@ ("mode" :> get_mode(data.bytes)))

\* line 214: 'cadence': await bk467.get_cadence()
Step214 ==
    /\ pc = "L214"
    /\ response' = NoResponse
    /\ reads' = reads \cup {data.id}
    /\ processed' = processed \cup {data.id}
    /\ UNCHANGED pre
    /\ IF get_cadence_raises(data.bytes)
       THEN Abort
       ELSE IF get_mode(data.bytes) # "cadence"
       THEN /\ w_data' = ("cadence" :> Zero) @@ w_data
            /\ pc' = "L215"
            /\ UNCHANGED <<client, data, estimator_vars, device_name,
                           battery_level, json_data, call, wheel_speed, loc, pub,
                           notified, lost, crank_seen, run>>
       ELSE LET last_crank_time == get_last_crank_time(data.bytes)
                c == calculate_cadence(
                         [ prev_cum_crank_rev |-> prev_cum_crank_rev,
                           prev_crank_time |-> prev_crank_time,
                           prev_crank_staleness |-> prev_crank_staleness,
                           prev_rpm |-> prev_rpm ],
                         get_cum_crank_rev(data.bytes), last_crank_time)
            IN  /\ prev_cum_crank_rev' = c.prev_cum_crank_rev
                /\ prev_crank_time' = c.prev_crank_time
                /\ prev_crank_staleness' = c.prev_crank_staleness
                /\ prev_rpm' = c.prev_rpm
                /\ w_data' = ("cadence" :> c.cadence) @@ w_data
                /\ loc' = [loc EXCEPT !.crank_called = TRUE,
                                      !.crank_updates = @ + 1,
                                      !.crank_delta_rotations = c.delta_rotations,
                                      !.crank_time_delta = c.time_delta,
                                      !.rpm = c.rpm]
                /\ crank_seen' = TRUE
                /\ run' = IF c.time_delta # 0
                          THEN [valid |-> TRUE, r |-> c.cadence, n |-> 0,
                                last |-> c.cadence]
                          ELSE IF run.valid /\ last_crank_time = prev_crank_time
                          THEN [run EXCEPT !.n = Min(run.n + 1, MaxStale),
                                           !.last = c.cadence]
                          ELSE NoRun
                /\ pc' = "L215"
                /\ UNCHANGED <<client, data, prev_combo_csc_cum_wheel_rev,
                               prev_combo_csc_wheel_time, device_name,
                               battery_level, json_data, call, wheel_speed, pub,
                               notified, lost>>

\* line 215: 'cum_crank_rev': await bk467.get_cum_crank_rev()
Step215 ==
    FieldStep("L215", "L216", get_cum_crank_rev_raises(data.bytes),
              "cum_crank_rev" :> get_cum_crank_rev(data.bytes))

\* line 216: 'last_crank_time': await bk467.get_last_crank_time()
Step216 ==
    FieldStep("L216", "L217", get_last_crank_time_raises(data.bytes),
              "last_crank_time" :> get_last_crank_time(data.bytes))

\* lines 217-219: 'last_crank_time_sec': int(await ... / 1024), then the two
\* entries taken from wheel_speed
Step217 ==
    FieldStep("L217", "L220", get_last_crank_time_raises(data.bytes),
              ("last_crank_time_sec" :> (get_last_crank_time(data.bytes) \div 1024))
              @@ ("cycling_speed" :> wheel_speed[1])
              @@ ("cycling_rpm" :> wheel_speed[2]))

\* line 220: 'cum_wheel_rev': await bk467.get_cum_wheel_rev()
Step220 ==
    FieldStep("L220", "L221", get_cum_wheel_rev_raises(data.bytes),
              "cum_wheel_rev" :> get_cum_wheel_rev(data.bytes))

\* line 221: 'last_wheel_time': await bk467.get_last_wheel_time()
Step221 ==
    FieldStep("L221", "L222", get_last_wheel_time_raises(data.bytes),
              "last_wheel_time" :> get_last_wheel_time(data.bytes))

\* line 222: 'last_wheel_time_sec': int(await ... / 1024)
Step222 ==
    FieldStep("L222", "L224", get_last_wheel_time_raises(data.bytes),
              "last_wheel_time_sec" :> (get_last_wheel_time(data.bytes) \div 1024))

\* lines 224-225 and 239-240: the dict is serialised, json_data is replaced
\* and update() sleeps.
Publish ==
    /\ pc = "L224"
    /\ response' = NoResponse
    /\ json_data' = w_data
    /\ pub' = [reads |-> reads, latest |-> pre.notified]
    /\ pc' = "ready"
    /\ wheel_speed' = <<Zero, Zero>>
    /\ w_data' = <<>>
    /\ loc' = NoLocals
    /\ pre' = NoPre
    /\ reads' = {}
    /\ UNCHANGED <<client, data, estimator_vars, device_name, battery_level,
                   notified, lost, processed, crank_seen, run, call>>

-----------------------------------------------------------------------------
(* The HTTP server thread (lines 227-234, 242-249, 259-260)                 *)

\* a handler that serialises the dict under construction
do_GET_reads_w_data(published_json, dict_in_progress) == dict_in_progress

\* do_GET: the body written to the client
do_GET(published_json, dict_in_progress) == published_json

\* One GET is answered.  The server thread runs beside the event loop, so
\* this can happen at any point of a pass.
Get ==
    /\ pc # "scan"
    /\ response' = [ sent |-> TRUE,
                     body |-> do_GET(json_data, w_data),
                     published |-> DOMAIN json_data # {} ]
    /\ UNCHANGED <<client, data, estimator_vars, device_name, battery_level,
                   json_data, pc, wheel_speed, w_data, loc, pre, reads, pub,
                   notified, lost, processed, crank_seen, run, call>>

Next ==
    \/ CallWithoutSession
    \/ Connect
    \/ Get
    \/ Notify
    \/ Step209
    \/ Step213
    \/ Step214
    \/ Step215
    \/ Step216
    \/ Step217
    \/ Step220
    \/ Step221
    \/ Step222
    \/ Publish

Spec == Init /\ [][Next]_vars

-----------------------------------------------------------------------------
(* Properties *)

\* update() is inside a pass and get_wheel_speed (line 209) has returned.
InPass == pc \in {"L213", "L214", "L215", "L216", "L217", "L220", "L221",
                  "L222", "L224"}

\* A snapshot has been published (json_data is no longer "{}").
Published == DOMAIN json_data # {}

\* C1: after a cadence tick whose time_delta is not 0 and that reports r,
\* consecutive cadence ticks with an unchanged crank timestamp report r, r
\* and then 0 on the third and every later one.  run.r is the report of the
\* tick with time_delta # 0, run.n the number of unchanged-timestamp ticks
\* since and run.last the latest report.
C1_CadenceStaleness ==
    run.valid =>
        /\ run.n \in {1, 2} => run.last = run.r
        /\ run.n >= 3 => run.last = Zero

C1_Witness ==
    /\ run.valid
    /\ run.n = 3
    /\ run.r = FromInt(60)
    /\ run.last = Zero
    /\ loc.crank_called
    /\ pre.prev_rpm = FromInt(60)

\* C2: the deltas the estimators compute for the crank counter, the crank
\* event time and the wheel event time equal (current - previous) mod 65536.
C2_WraparoundDelta ==
    /\ InPass =>
          loc.wheel_time_delta =
              (get_last_wheel_time(data.bytes) - pre.prev_combo_csc_wheel_time) % 65536
    /\ loc.crank_called =>
          /\ loc.crank_delta_rotations =
                (get_cum_crank_rev(data.bytes) - pre.prev_cum_crank_rev) % 65536
          /\ loc.crank_time_delta =
                (get_last_crank_time(data.bytes) - pre.prev_crank_time) % 65536

\* C3: the mode of a snapshot is speed when bit 0 of the flags byte is set,
\* otherwise cadence when bit 1 is set, otherwise speed.
C3_ModeDetection ==
    (InPass /\ pc # "L213") =>
        w_data.mode =
            IF Item(data.bytes, 0) % 2 = 1 THEN "speed"
            ELSE IF (Item(data.bytes, 0) \div 2) % 2 = 1 THEN "cadence"
            ELSE "speed"

\* C4: every field of a snapshot, published or under construction, was read
\* from one and the same notification buffer.
C4_SnapshotConsistency ==
    /\ Cardinality(reads) <= 1
    /\ Published => Cardinality(pub.reads) = 1

C4_Witness ==
    /\ Published
    /\ pub.reads = {1}
    /\ notified = 2
    /\ pc = "L224"
    /\ reads = {2}

\* C5: a payload shorter than its mode requires never ends the periodic
\* snapshot cycle.
C5_TruncatedNeverAborts == pc # "dead"

\* C6: while no notification has been received, every pass publishes mode
\* speed and zero in every rate, counter and time field, nothing raises and
\* the estimator state keeps its initial values.
C6_UninitializedIdempotent ==
    notified = 0 =>
        /\ pc # "dead"
        /\ prev_combo_csc_cum_wheel_rev = 0
        /\ prev_combo_csc_wheel_time = 0
        /\ prev_cum_crank_rev = 0
        /\ prev_crank_time = 0
        /\ prev_crank_staleness = 0
        /\ prev_rpm = Zero
        /\ Published =>
              /\ json_data.mode = "speed"
              /\ json_data.cadence = Zero
              /\ json_data.cycling_rpm = Zero
              /\ json_data.cycling_speed = Zero
              /\ json_data.cum_crank_rev = 0
              /\ json_data.last_crank_time = 0
              /\ json_data.last_crank_time_sec = 0
              /\ json_data.cum_wheel_rev = 0
              /\ json_data.last_wheel_time = 0
              /\ json_data.last_wheel_time_sec = 0

\* a second pass is about to publish and still no notification has arrived
C6_Witness ==
    /\ notified = 0
    /\ Published
    /\ pc = "L224"

\* C7: the first crank sample of the session is reported as cadence 0.
C7_FirstCrankSampleZero ==
    (loc.crank_called /\ ~pre.crank_seen) => w_data.cadence = Zero

\* C8: the reported cadence never exceeds 500, and a tick whose selected rpm
\* (computed, or reused on a stale tick) exceeds 500 reports 0.
C8_OutlierRejection ==
    /\ (InPass /\ pc \notin {"L213", "L214"}) => NumLeqInt(w_data.cadence, 500)
    /\ Published => NumLeqInt(json_data.cadence, 500)
    /\ (loc.crank_called /\ ~NumLeqInt(loc.rpm, 500)) => w_data.cadence = Zero

\* a stale tick reuses a last good rpm above 500
C8_Witness ==
    /\ loc.crank_called
    /\ loc.crank_time_delta = 0
    /\ ~NumLeqInt(loc.rpm, 500)
    /\ loc.rpm = FromInt(600)

\* C9: wheel_rpm is 0 when the estimator's time_delta is 0 or the previously
\* recorded cumulative wheel count is 0, and 1024 * rot_delta * 60 / time_delta
\* otherwise.
C9_SpeedEstimatorResult ==
    InPass =>
        wheel_speed[2] =
            IF loc.wheel_time_delta = 0 \/ pre.prev_combo_csc_cum_wheel_rev = 0
            THEN Zero
            ELSE Num(1024 * loc.wheel_delta_rotations * 60, loc.wheel_time_delta, 0)

C9_Witness ==
    /\ pc = "L213"
    /\ loc.wheel_delta_rotations = 10
    /\ loc.wheel_time_delta = 1024
    /\ pre.prev_combo_csc_cum_wheel_rev # 0
    /\ wheel_speed[2] = FromInt(600)

\* C10: a pass reads only the most recent notification delivered before it
\* began, and a notification overwritten before any pass read it is never
\* read by a pass.
C10_LossySingleSlot ==
    /\ reads \subseteq {pre.notified}
    /\ Published => pub.reads = {pub.latest}
    /\ lost \cap processed = {}

\* notification 1 was overwritten unread, and a pass published from 2
C10_Witness ==
    /\ 1 \in lost
    /\ Published
    /\ pub.reads = {2}


\* The keys of the dict of lines 210-223.
SnapshotFields ==
    { "device_name", "battery_level", "mode", "cadence", "cum_crank_rev",
      "last_crank_time", "last_crank_time_sec", "cycling_speed", "cycling_rpm",
      "cum_wheel_rev", "last_wheel_time", "last_wheel_time_sec" }

\* C11 as stated: every GET is answered with a complete snapshot.
C11_EveryGetComplete ==
    response.sent => DOMAIN response.body = SnapshotFields

\* C11 as amended: the body of every GET is json_data as it is at that
\* moment: "{}" while no pass has completed, and afterwards the complete
\* snapshot of the most recently completed pass, never the dict being built.
C11_GetEmptyOrComplete ==
    response.sent =>
        /\ response.body = json_data
        /\ IF response.published
           THEN DOMAIN response.body = SnapshotFields
           ELSE DOMAIN response.body = {}

\* a GET answered in the middle of a later pass
C11_Witness ==
    /\ response.sent
    /\ response.published
    /\ pc = "L217"
    /\ DOMAIN w_data # {}
    /\ response.body.cum_wheel_rev # get_cum_wheel_rev(data.bytes)

\* C12: an accessor awaited while no session exists fails with the
\* not-connected error and leaves self.data and the estimator state as they
\* were (before a session exists they hold their initial values).
C12_NotConnectedFatalToCallOnly ==
    call.name # "" =>
        /\ call.outcome = "ValueError"
        /\ data = [bytes |-> InitData, id |-> 0]
        /\ prev_combo_csc_cum_wheel_rev = 0
        /\ prev_combo_csc_wheel_time = 0
        /\ prev_cum_crank_rev = 0
        /\ prev_crank_time = 0
        /\ prev_crank_staleness = 0
        /\ prev_rpm = Zero
        /\ pc = "scan"

C12_Witness ==
    /\ call.name = "get_wheel_rpm"
    /\ call.outcome = "ValueError"
    /\ client = "None"

\* C13: the wheel rotation delta, wheel_rpm and cycling_speed are never
\* negative.
C13_WheelRateNonNegative ==
    InPass =>
        /\ loc.wheel_delta_rotations >= 0
        /\ ~NumNegative(wheel_speed[1])
        /\ ~NumNegative(wheel_speed[2])

\* C14: a pass over a cadence-mode payload leaves the speed estimator state
\* unchanged, and a pass over a speed-mode payload leaves the cadence
\* estimator state unchanged.
C14_OnlyMatchingEstimatorFed ==
    pc = "L224" =>
        /\ w_data.mode = "cadence" =>
              /\ prev_combo_csc_cum_wheel_rev = pre.prev_combo_csc_cum_wheel_rev
              /\ prev_combo_csc_wheel_time = pre.prev_combo_csc_wheel_time
        /\ w_data.mode = "speed" =>
              /\ prev_cum_crank_rev = pre.prev_cum_crank_rev
              /\ prev_crank_time = pre.prev_crank_time
              /\ prev_crank_staleness = pre.prev_crank_staleness
              /\ prev_rpm = pre.prev_rpm

\* C15: in one pass each estimator advances its state at most once, its
\* deltas are taken against the state as it was before the pass, and after
\* the call the previous counter and time are those of the sample, whether
\* or not a rate was computed.
C15_EstimatorUpdateDiscipline ==
    /\ loc.wheel_updates <= 1
    /\ loc.crank_updates <= 1
    /\ InPass =>
          /\ loc.wheel_updates = 1
          /\ prev_combo_csc_cum_wheel_rev = get_cum_wheel_rev(data.bytes)
          /\ prev_combo_csc_wheel_time = get_last_wheel_time(data.bytes)
          /\ loc.wheel_delta_rotations =
                get_cum_wheel_rev(data.bytes) - pre.prev_combo_csc_cum_wheel_rev
    /\ loc.crank_called =>
          /\ loc.crank_updates = 1
          /\ prev_cum_crank_rev = get_cum_crank_rev(data.bytes)
          /\ prev_crank_time = get_last_crank_time(data.bytes)
          /\ LET d == get_cum_crank_rev(data.bytes) - pre.prev_cum_crank_rev
             IN  loc.crank_delta_rotations = IF d < 0 THEN d + 65535 ELSE d

\* the state advances on a sample for which no rate is computed
C15_Witness ==
    /\ pc = "L224"
    /\ pre.prev_combo_csc_cum_wheel_rev = 0
    /\ wheel_speed[2] = Zero
    /\ prev_combo_csc_cum_wheel_rev = 10
    /\ prev_combo_csc_wheel_time = 1024

\* C16: a speed snapshot has cadence, cum_crank_rev and last_crank_time 0, a
\* cadence snapshot has cum_wheel_rev and last_wheel_time 0, and the
\* accessor of a field of the other mode does not raise.
C16_MismatchedFieldsZero ==
    /\ Published =>
          /\ json_data.mode = "speed" =>
                /\ json_data.cadence = Zero
                /\ json_data.cum_crank_rev = 0
                /\ json_data.last_crank_time = 0
          /\ json_data.mode = "cadence" =>
                /\ json_data.cum_wheel_rev = 0
                /\ json_data.last_wheel_time = 0
    /\ get_mode(data.bytes) = "speed" =>
          /\ ~get_cadence_raises(data.bytes)
          /\ ~get_cum_crank_rev_raises(data.bytes)
          /\ ~get_last_crank_time_raises(data.bytes)
    /\ get_mode(data.bytes) = "cadence" =>
          /\ ~get_cum_wheel_rev_raises(data.bytes)
          /\ ~get_last_wheel_time_raises(data.bytes)

\* a speed snapshot whose payload bytes 1-4 are not all zero
C16_Witness ==
    /\ Published
    /\ json_data.mode = "speed"
    /\ json_data.cum_wheel_rev = 10
    /\ json_data.last_wheel_time = 1024
    /\ json_data.cum_crank_rev = 0

\* C17: the staleness count is 0, 1 or 2, and it is 0 right after a cadence
\* tick whose time_delta is not 0.
C17_StalenessRange ==
    /\ prev_crank_staleness \in 0..2
    /\ (loc.crank_called /\ loc.crank_time_delta # 0) => prev_crank_staleness = 0

\* the count is reset from 2
C17_Witness ==
    /\ loc.crank_called
    /\ loc.crank_time_delta # 0
    /\ pre.prev_crank_staleness = 2
    /\ prev_crank_staleness = 0

\* C18: a snapshot whose mode is cadence has cycling_rpm and cycling_speed 0.
C18_CadenceSnapshotSpeedZero ==
    (Published /\ json_data.mode = "cadence") =>
        /\ json_data.cycling_rpm = Zero
        /\ json_data.cycling_speed = Zero

\* C19: the reported cadence is never negative.
C19_CadenceNonNegative ==
    /\ (InPass /\ pc \notin {"L213", "L214"}) => ~NumNegative(w_data.cadence)
    /\ Published => ~NumNegative(json_data.cadence)

\* a sample whose counter and timestamp are both lower than the recorded ones
C19_Witness ==
    /\ loc.crank_called
    /\ get_cum_crank_rev(data.bytes) < pre.prev_cum_crank_rev
    /\ get_last_crank_time(data.bytes) < pre.prev_crank_time
    /\ w_data.cadence = FromInt(60)

====
